---- MODULE Spec2Model ----
(***************************************************************************)
(* The fallback search resolution of the AI News dashboard: the two        *)
(* scripts app.py and publish4zenn.py (UniversalSearchClient, the memoized *)
(* web_search_and_fetch and the run button handler).                       *)
(***************************************************************************)
EXTENDS Naturals, Sequences, FiniteSets, TLC

\* ------------------------------------------------------------------ bounds

\* max_results ranges over 1..MaxResults
MaxResults == 2
\* the number of times the run button is pressed in a session
MaxClicks == 2
\* seconds that pass between two presses when time passes at all
TickStep == 1000
\* @st.cache_data(ttl=1800)
TTL == 1800

\* ------------------------------------------------------------ JSON payloads

\* A candidate element of a payload. A dict is modelled by the seven keys the
\* code reads; a missing key, None and "" all read as "" (they are all falsy
\* under `it.get(k) or ...`). isdict = FALSE is any non-dict element.
Item(d, u, l, t, n, c, s, x) ==
  [isdict |-> d, url |-> u, link |-> l, title |-> t, name |-> n,
   content |-> c, snippet |-> s, text |-> x]

\* A canonical record {"url", "title", "content"}.
Rec(u, t, c) ==
  [url |-> u, title |-> t, content |-> c]

\* One field of a keyed payload, in the dict's insertion order.
Field(k, isl, its) ==
  [key |-> k, islist |-> isl, items |-> its]

\* A decoded payload: a list, a dict (its fields in order) or anything else.
ListPayload(its) ==
  [kind |-> "list", fields |-> <<Field("", TRUE, its)>>]

DictPayload(fs) ==
  [kind |-> "dict", fields |-> fs]

OtherPayload ==
  [kind |-> "other", fields |-> <<>>]

\* data.get(k) is a list: the dict has key k and its value is a list.
HasListField(fs, k) ==
  \E i \in 1..Len(fs) : fs[i].key = k /\ fs[i].islist

GetField(fs, k) ==
  fs[CHOOSE i \in 1..Len(fs) : fs[i].key = k].items

\* next((v for v in data.values() if isinstance(v, list)), [])
FirstListField(fs) ==
  IF \E i \in 1..Len(fs) : fs[i].islist
  THEN fs[CHOOSE i \in 1..Len(fs) :
             fs[i].islist /\ \A j \in 1..(i-1) : ~fs[j].islist].items
  ELSE <<>>

\* app.py _normalize_search, the choice of the candidate sequence
SelectItemsApp(data) ==
  IF data.kind = "list" THEN data.fields[1].items
  ELSE IF data.kind = "dict"
  THEN IF HasListField(data.fields, "results") THEN GetField(data.fields, "results")
       ELSE IF HasListField(data.fields, "data") THEN GetField(data.fields, "data")
       ELSE FirstListField(data.fields)
  ELSE <<>>

\* publish4zenn.py _normalize_search, the choice of the candidate sequence
SelectItemsPub(data) ==
  IF data.kind = "list" THEN data.fields[1].items
  ELSE IF data.kind = "dict"
  THEN IF HasListField(data.fields, "results") THEN GetField(data.fields, "results")
       ELSE FirstListField(data.fields)
  ELSE <<>>

\* a or b, on strings
Or2(a, b) ==
  IF a # "" THEN a ELSE b

\* url = it.get("url") or it.get("link") or ""
ItemUrl(it) ==
  Or2(it.url, it.link)

ItemTitle(it) ==
  Or2(it.title, it.name)

\* the aliases of content read in the opposite order
ItemContentTextFirst(it) ==
  Or2(it.text, Or2(it.snippet, it.content))

\* content = it.get("content") or it.get("snippet") or it.get("text") or ""
ItemContent(it) ==
  Or2(it.content, Or2(it.snippet, it.text))

\* the guard left out
UrlOkAlways(url) ==
  TRUE

\* the test `if url:` that guards norm.append
UrlOk(url) ==
  url # ""

\* the loop `for it in items` of _normalize_search
RECURSIVE NormalizeItems(_)
NormalizeItems(items) ==
  IF items = <<>> THEN <<>>
  ELSE LET it == Head(items)
           rest == NormalizeItems(Tail(items))
       IN IF ~it.isdict THEN rest
          ELSE IF UrlOk(ItemUrl(it))
          THEN <<Rec(ItemUrl(it), ItemTitle(it), ItemContent(it))>> \o rest
          ELSE rest

NormalizeSearchApp(data) ==
  NormalizeItems(SelectItemsApp(data))

NormalizeSearchPub(data) ==
  NormalizeItems(SelectItemsPub(data))

\* a slice that forgets its bound
TakeAll(s, n) ==
  s

\* s[:n]
Take(s, n) ==
  IF Len(s) <= n THEN s ELSE SubSeq(s, 1, n)

\* ------------------------------------------------ the deduplicating collector

\* the test without its `url in seen` half
SkipEmptyOnly(url, seen) ==
  url = ""

\* the test `if not url or url in seen: continue` of web_search_and_fetch
Skip(url, seen) ==
  url = "" \/ url \in seen

\* the loop of web_search_and_fetch over the list search() returned
RECURSIVE CollectFrom(_, _, _)
CollectFrom(results, seen, out) ==
  IF results = <<>> THEN out
  ELSE LET r == Head(results)
       IN IF Skip(r.url, seen) THEN CollectFrom(Tail(results), seen, out)
          ELSE CollectFrom(Tail(results), seen \cup {r.url},
                           Append(out, Rec(r.url, r.title, r.content)))

Reverse(s) ==
  [i \in 1..Len(s) |-> s[Len(s) + 1 - i]]

\* a collector that keeps the record seen last for each url
CollectKeepLast(results) ==
  Reverse(CollectFrom(Reverse(results), {}, <<>>))

Collect(results) ==
  CollectFrom(results, {}, <<>>)

\* ------------------------------------------------------- backend responses

\* Values the model's payloads are built from.
ItemA ==
  Item(TRUE, "u1", "", "t1", "", "c1", "", "")

\* the same url as ItemA under another title
ItemA2 ==
  Item(TRUE, "u1", "", "t2", "", "", "s2", "")

\* a record that uses the alias keys link / name / text
ItemB ==
  Item(TRUE, "", "u2", "", "n2", "", "", "x2")

\* a record without url and link
ItemN ==
  Item(TRUE, "", "", "t3", "", "c3", "", "")

StepPayloads ==
  { ListPayload(<<>>),
    OtherPayload,
    ListPayload(<<ItemA>>),
    ListPayload(<<ItemA, ItemA2, ItemB>>),
    DictPayload(<<Field("results", TRUE, <<ItemN, ItemB>>)>>),
    DictPayload(<<Field("took", FALSE, <<>>), Field("data", TRUE, <<ItemB, ItemA>>)>>) }

\* The outcome of one HTTP request: an exception of the transport (timeout,
\* connection error) or a response with a status and a body that decodes
\* as JSON or does not.
HttpResp(k, st, dec, p) ==
  [kind |-> k, status |-> st, decodable |-> dec, payload |-> p]

QuotaStatuses ==
  {401, 402, 403, 429}

OtherFailStatuses ==
  {404, 500}

HttpResponses ==
  { HttpResp(k, 0, FALSE, OtherPayload) : k \in {"timeout", "connerr"} }
    \cup { HttpResp("response", st, FALSE, OtherPayload) :
             st \in QuotaStatuses \cup OtherFailStatuses }
    \cup { HttpResp("response", 200, FALSE, OtherPayload) }
    \cup { HttpResp("response", 200, TRUE, p) : p \in StepPayloads }

\* The outcome of one SDK web_search call: an exception, an object with a
\* `results` attribute, a dict or list, or any other value.
SdkResp(k, its, p) ==
  [kind |-> k, items |-> its, payload |-> p]

SdkResponses ==
  { SdkResp("exception", <<>>, OtherPayload), SdkResp("other", <<>>, OtherPayload) }
    \cup { SdkResp("object", its, OtherPayload) :
             its \in { <<>>, <<ItemN>>, <<ItemA, ItemA2, ItemB>> } }
    \cup { SdkResp("json", <<>>, p) : p \in StepPayloads }

\* ------------------------------------------------------------ adapter results

\* What an adapter call ends with: an exception that reaches the caller, None,
\* or a list.
Raised ==
  [raised |-> TRUE, isNone |-> TRUE, items |-> <<>>]

None ==
  [raised |-> FALSE, isNone |-> TRUE, items |-> <<>>]

List(its) ==
  [raised |-> FALSE, isNone |-> FALSE, items |-> its]

\* `if res:` / `if r:` / `if items:`
Truthy(r) ==
  ~r.raised /\ ~r.isNone /\ r.items # <<>>

\* `items if items else None`
ListOrNone(its) ==
  IF its # <<>> THEN List(its) ELSE None

\* app.py _try_ollama_sdk, the loop over res.results: getattr url/title/content
RECURSIVE SdkObjectItems(_)
SdkObjectItems(items) ==
  IF items = <<>> THEN <<>>
  ELSE LET it == Head(items)
       IN IF it.url # ""
          THEN <<Rec(it.url, it.title, it.content)>> \o SdkObjectItems(Tail(items))
          ELSE SdkObjectItems(Tail(items))

\* app.py _try_ollama_sdk(query, max_results)
TryOllamaSdkApp(has_sdk, r) ==
  IF ~has_sdk THEN None
  ELSE IF r.kind = "exception" THEN None
  ELSE IF r.kind = "object" THEN List(SdkObjectItems(r.items))
  ELSE IF r.kind = "json" THEN List(NormalizeSearchApp(r.payload))
  ELSE None

\* one request of _http_search_once without the try / except around it
HttpSearchAttemptUncaught(r) ==
  IF r.kind # "response" THEN Raised
  ELSE IF r.status = 200
  THEN IF r.decodable THEN ListOrNone(NormalizeSearchApp(r.payload)) ELSE Raised
  ELSE None

\* app.py _http_search_once, one GET or POST of its two loops
HttpSearchAttempt(r) ==
  IF r.kind # "response" THEN None
  ELSE IF r.status = 200
  THEN ListOrNone(NormalizeSearchApp(IF r.decodable THEN r.payload
                                     ELSE DictPayload(<<>>)))
  ELSE None

\* publish4zenn.py _try_ollama_http(query, max_results)
TryOllamaHttpPub(r, m) ==
  IF r.kind # "response" THEN None
  ELSE IF r.status = 200
  THEN IF ~r.decodable THEN None
       ELSE ListOrNone(Take(NormalizeSearchPub(r.payload), m))
  ELSE None

\* publish4zenn.py _try_ollama_sdk(query, max_results)
TryOllamaSdkPub(r, m) ==
  IF r.kind = "exception" THEN None
  ELSE ListOrNone(Take(NormalizeSearchPub(IF r.kind = "json" THEN r.payload
                                          ELSE OtherPayload), m))

\* --------------------------------------------------- the direct-HTTP candidates

\* An environment value for the base host: a stem followed by trailing slashes;
\* stem = "" is the unset variable.
EnvBase(stem, n) ==
  [stem |-> stem, slashes |-> n]

\* base_env.rstrip("/")
RStripSlash(b) ==
  b.stem

BuiltinBases ==
  << "https://api.ollama.com", "https://api.ollama.ai",
     "https://cloud.ollama.com", "http://localhost:11434" >>

search_paths ==
  << "/web/search", "/api/web/search", "/web_search", "/api/web_search",
     "/search", "/api/search", "/v1/web/search", "/api/v1/web/search",
     "/v1/search", "/api/v1/search" >>

\* __init__: self.base_candidates
base_candidates(c) ==
  (IF c.base_env.stem # "" THEN <<RStripSlash(c.base_env)>> ELSE <<>>)
    \o BuiltinBases

\* The URLs _try_ollama_http hands to _http_search_once, in order: the fixed
\* URL when set, then base x path.
UrlList(c) ==
  LET bs == base_candidates(c)
      np == Len(search_paths)
  IN (IF c.fixed # "" THEN <<c.fixed>> ELSE <<>>)
       \o [k \in 1..(Len(bs) * np) |->
             bs[((k - 1) \div np) + 1] \o search_paths[((k - 1) % np) + 1]]

\* _http_search_once: four GET parameter shapes, then five POST bodies
NumGetShapes == 4
NumPostShapes == 5
NumShapes ==
  NumGetShapes + NumPostShapes

\* The URL index and the shape index of the pos-th request of the tier.
UrlIndex(p) ==
  ((p - 1) \div NumShapes) + 1

ShapeIndex(p) ==
  ((p - 1) % NumShapes) + 1

\* publish4zenn.py __init__: the fixed endpoint
DefaultSearchUrl ==
  "https://ollama.com/api/web_search"

\* ------------------------------------------- keyless feeds and keyed providers

\* The outcome of the GET of a news feed: an exception, or a response with a
\* status and a text that is empty, is no XML, or holds these item elements.
RssResp(k, st, empty, xml, es) ==
  [kind |-> k, status |-> st, text_empty |-> empty, xml_ok |-> xml, entries |-> es]

RssEntry(t, l, d) ==
  [title |-> t, link |-> l, description |-> d]

\* html.unescape, on the texts of the model
Unescape(t) ==
  IF t = "R&amp;D" THEN "R&D" ELSE t

\* str.strip, on the links of the model
Strip(l) ==
  IF l = " " THEN "" ELSE IF l = " u3 " THEN "u3" ELSE l

\* _parse_rss_items, the loop over root.findall(".//item")
RECURSIVE ParseRssFrom(_, _, _)
ParseRssFrom(entries, items, m) ==
  IF entries = <<>> THEN items
  ELSE LET it == Head(entries)
           link == Strip(it.link)
           items2 == IF link # ""
                     THEN Append(items, Rec(link, Unescape(it.title),
                                            Unescape(it.description)))
                     ELSE items
       IN IF Len(items2) >= m THEN items2
          ELSE ParseRssFrom(Tail(entries), items2, m)

\* _parse_rss_items(xml_text, max_results)
ParseRssItems(xml_ok, entries, m) ==
  IF ~xml_ok THEN <<>> ELSE ParseRssFrom(entries, <<>>, m)

\* _try_google_news_rss / _try_bing_news_rss with the exception not caught
TryNewsRssUncaught(r, m) ==
  IF r.kind = "exception" THEN Raised
  ELSE IF r.status # 200 \/ r.text_empty THEN None
  ELSE List(ParseRssItems(r.xml_ok, r.entries, m))

\* _try_google_news_rss(query, max_results)
TryGoogleNewsRss(r, m) ==
  IF r.kind = "exception" THEN None
  ELSE IF r.status # 200 \/ r.text_empty THEN None
  ELSE List(ParseRssItems(r.xml_ok, r.entries, m))

\* _try_bing_news_rss(query, max_results)
TryBingNewsRss(r, m) ==
  IF r.kind = "exception" THEN None
  ELSE IF r.status # 200 \/ r.text_empty THEN None
  ELSE List(ParseRssItems(r.xml_ok, r.entries, m))

\* The outcome of a request to Serper, Brave or Bing: an exception, or a
\* response with a status and a body that decodes or not; a decoded body is a
\* dict (shape "dict") or not, and `items` is the list found at the path the
\* adapter reads ("organic" / "news", "web"."results", "webPages"."value"),
\* <<>> when the path is missing. An element is a dict with the three keys
\* the adapter reads, or no dict.
ProvResp(k, st, dec, sh, its) ==
  [kind |-> k, status |-> st, decodable |-> dec, shape |-> sh, items |-> its]

ProvItem(d, t, u, x) ==
  [isdict |-> d, title |-> t, url |-> u, text |-> x]

\* {"title": it.get(..) or "", "url": it.get(..) or "", "content": it.get(..) or ""}
RECURSIVE ProvRecords(_)
ProvRecords(items) ==
  IF items = <<>> THEN <<>>
  ELSE <<Rec(Head(items).url, Head(items).title, Head(items).text)>>
         \o ProvRecords(Tail(items))

\* [x for x in items if x["url"]]
RECURSIVE WithUrl(_)
WithUrl(recs) ==
  IF recs = <<>> THEN <<>>
  ELSE IF Head(recs).url # "" THEN <<Head(recs)>> \o WithUrl(Tail(recs))
  ELSE WithUrl(Tail(recs))

\* r.json() raises, data.get raises (no dict) or it.get raises (an element
\* among the ones read is no dict)
ProvBodyRaises(r, n) ==
  \/ ~r.decodable
  \/ r.shape # "dict"
  \/ \E i \in 1..Len(Take(r.items, n)) : ~r.items[i].isdict

\* _try_serper(query, max_results): /search, then /news while short of max_results
TrySerper(key, r1, r2, m) ==
  IF ~key THEN None
  ELSE IF r1.kind = "exception" THEN None
  ELSE IF r1.status # 200 THEN None
  ELSE IF ProvBodyRaises(r1, m) THEN None
  ELSE LET items == ProvRecords(Take(r1.items, m))
       IN IF Len(items) < m
          THEN IF r2.kind = "exception" THEN None
               ELSE IF r2.status = 200
               THEN IF ProvBodyRaises(r2, m - Len(items)) THEN None
                    ELSE List(WithUrl(items \o ProvRecords(Take(r2.items, m - Len(items)))))
               ELSE List(WithUrl(items))
          ELSE List(WithUrl(items))

\* _try_brave(query, max_results)
TryBrave(key, r, m) ==
  IF ~key THEN None
  ELSE IF r.kind = "exception" THEN None
  ELSE IF r.status # 200 THEN None
  ELSE IF ProvBodyRaises(r, m) THEN None
  ELSE List(WithUrl(ProvRecords(Take(r.items, m))))

\* _try_bing(query, max_results)
TryBing(key, r, m) ==
  IF ~key THEN None
  ELSE IF r.kind = "exception" THEN None
  ELSE IF r.status # 200 THEN None
  ELSE IF ProvBodyRaises(r, m) THEN None
  ELSE List(WithUrl(ProvRecords(Take(r.items, m))))

\* ------------------------------------------------------ the narrative composer

\* The outcome of ollama_local_client.chat(...): an exception with the text
\* str(e), a dict or any other object. `message` tells what the response holds
\* under "message" / .message: nothing ("missing"), None ("none"), a dict or an
\* object; `content` is what that holds under "content" / .content, with
\* missing, None and "" all read as "" (they are all falsy under `or`).
ChatResp(k, msg, c, e) ==
  [kind |-> k, message |-> msg, content |-> c, err |-> e]

\* "(応答なし)"
NoResponseText ==
  "(no response)"

\* the text built in the except branch
ErrorMsg(e) ==
  "Error during analysis: " \o e
    \o " Please ensure Ollama is running locally and gemma3:4b model is installed."
    \o " Run: ollama pull gemma3:4b"

\* What analyze_ai_news_narrative ends with: an exception that reaches the
\* caller, or a text; src are the sources the prompt was packed from.
Narrative(raised, text, srcs) ==
  [raised |-> raised, text |-> text, src |-> srcs]

\* response.get('message', {}).get('content', '') where None has no .get, and
\* getattr(getattr(response, 'message', None), 'content', '') or '' where
\* None and a dict have no attribute `content`
ChatContent(r) ==
  IF r.kind = "dict"
  THEN IF r.message = "missing" THEN [raises |-> FALSE, content |-> ""]
       ELSE IF r.message = "dict" THEN [raises |-> FALSE, content |-> r.content]
       ELSE [raises |-> TRUE, content |-> ""]
  ELSE IF r.message = "object" THEN [raises |-> FALSE, content |-> r.content]
  ELSE [raises |-> FALSE, content |-> ""]

AttributeErrorText ==
  "'NoneType' object has no attribute 'get'"

\* the try block without its except branch
analyze_uncaught(srcs, r) ==
  IF r.kind = "exception" THEN Narrative(TRUE, "", srcs)
  ELSE IF ChatContent(r).raises THEN Narrative(TRUE, "", srcs)
  ELSE Narrative(FALSE, Or2(ChatContent(r).content, NoResponseText), srcs)

\* analyze_ai_news_narrative(sources, selected_date), given the outcome of chat
analyze_ai_news_narrative(srcs, r) ==
  IF r.kind = "exception" THEN Narrative(FALSE, ErrorMsg(r.err), srcs)
  ELSE IF ChatContent(r).raises THEN Narrative(FALSE, ErrorMsg(AttributeErrorText), srcs)
  ELSE Narrative(FALSE, Or2(ChatContent(r).content, NoResponseText), srcs)

\* The chat outcomes of the model.
ChatResponses ==
  { ChatResp("exception", "missing", "", e) : e \in {"", "connection refused"} }
    \cup { ChatResp("dict", "missing", "", ""), ChatResp("dict", "none", "", ""),
           ChatResp("object", "missing", "", ""), ChatResp("object", "none", "", "") }
    \cup { ChatResp(km[1], km[2], c, "") :
             km \in { <<"dict", "dict">>, <<"object", "object">>, <<"object", "dict">> },
             c \in {"", "article text"} }

\* ... and the ones a session is followed with
StepChatResponses ==
  { ChatResp("exception", "missing", "", "connection refused"),
    ChatResp("dict", "dict", "", ""),
    ChatResp("object", "object", "article text", "") }

\* ------------------------------------------------------------------- state

VARIABLES
  program,      \* "app" (app.py) or "pub" (publish4zenn.py)
  cfg,          \* the environment read by __init__
  urls,         \* the URLs of the direct-HTTP tier, fixed by __init__
  feed,         \* what Google News RSS and Bing News RSS answer to a GET
  clicksLeft,   \* presses of the run button still to come
  pc,           \* where the run is: idle, sdk, http, collect, handle, crashed
  query,        \* effective_query of the current press
  max_results,  \* the slider value of the current press
  pos,          \* app.py: the number of the next request of the direct-HTTP tier
  tierLog,      \* the tiers search() has called in this pass, with what each returned
  quotaSeen,    \* the direct-HTTP tier got 401/402/403/429 in this pass
  afterQuota,   \* ... and issued another request afterwards
  sdkAfterQuota,\* ... and ollama.web_search was called afterwards
  repeated,     \* the direct-HTTP tier issued some (URL, method, shape) twice
  netCalled,    \* a backend was contacted since the press
  res,          \* what search() returned in this pass
  cacheHit,     \* the press was served by st.cache_data
  cache,        \* st.cache_data of web_search_and_fetch: key -> value and age
  sources,      \* st.session_state.sources
  article,      \* st.session_state.article
  notice,       \* the inline status message of the press
  composerCalls,\* calls of analyze_ai_news_narrative since the press
  fn,           \* a function of the scripts called on its own, "" when none is
  arg,          \* ... its arguments and the answers of the backend it contacts
  out           \* ... and what the call ended with

vars ==
  << program, cfg, urls, feed, clicksLeft, pc, query, max_results, pos, tierLog, quotaSeen,
     afterQuota, sdkAfterQuota, repeated, netCalled, res, cacheHit, cache,
     sources, article, notice, composerCalls, fn, arg, out >>

\* ------------------------------------------------- functions called on their own

\* the longest list handed to the collector
MaxLen == 3
\* the longest list of candidates in a payload handed to the normalizer
MaxItems == 2

Arg(m, flag, data, results, http, sdk, rss, p1, p2, chat) ==
  [m |-> m, flag |-> flag, data |-> data, results |-> results, http |-> http,
   sdk |-> sdk, rss |-> rss, p1 |-> p1, p2 |-> p2, chat |-> chat]

NoHttp ==
  HttpResp("timeout", 0, FALSE, OtherPayload)

NoSdk ==
  SdkResp("exception", <<>>, OtherPayload)

NoRss ==
  RssResp("exception", 0, TRUE, FALSE, <<>>)

NoProv ==
  ProvResp("exception", 0, FALSE, "other", <<>>)

NoChat ==
  ChatResp("exception", "missing", "", "")

NoArg ==
  Arg(0, FALSE, OtherPayload, <<>>, NoHttp, NoSdk, NoRss, NoProv, NoProv, NoChat)

\* `text` is the string a function that returns a text ended with.
Pending ==
  [done |-> FALSE, raised |-> FALSE, isNone |-> TRUE, items |-> <<>>, text |-> ""]

Done(r) ==
  [done |-> TRUE, raised |-> r.raised, isNone |-> r.isNone, items |-> r.items,
   text |-> ""]

\* all sequences over S of length at most n
SeqsUpTo(S, n) ==
  UNION { [1..k -> S] : k \in 0..n }

\* Lists search() can return: canonical records with a url.
ResultRecords ==
  { Rec(u, tc[1], tc[2]) : u \in {"u1", "u2"}, tc \in {<<"t1", "c1">>, <<"t2", "">>} }

ResultLists ==
  SeqsUpTo(ResultRecords, MaxLen)

\* a record with every alias key set
ItemAll ==
  Item(TRUE, "u1", "u2", "t1", "n2", "c1", "s2", "x2")

\* a record with link, snippet and text only
ItemSnippet ==
  Item(TRUE, "", "u2", "", "", "", "s2", "x2")

\* an element that is no dict
ItemNoDict ==
  Item(FALSE, "", "", "", "", "", "", "")

NormItems ==
  {ItemA, ItemB, ItemN, ItemAll, ItemSnippet, ItemNoDict}

FieldKeys ==
  {"results", "data", "items", "count"}

\* the values of the fields of a keyed payload: a list, or something else
FieldValues ==
  { Field("", TRUE, its) : its \in {<<>>, <<ItemA>>, <<ItemB>>, <<ItemN, ItemA2>>} }
    \cup { Field("", FALSE, <<>>) }

Fields ==
  { Field(k, v.islist, v.items) : k \in FieldKeys, v \in FieldValues }

NormPayloads ==
  { OtherPayload }
    \cup { ListPayload(its) : its \in SeqsUpTo(NormItems, MaxItems) }
    \cup { DictPayload(<<>>) }
    \cup { DictPayload(<<f>>) : f \in Fields }
    \cup { DictPayload(<<fg[1], fg[2]>>) :
             fg \in { p \in Fields \X Fields : p[1].key # p[2].key } }

RssEntries ==
  { <<>>,
    <<RssEntry("R&amp;D", "u1", "d1")>>,
    <<RssEntry("t1", " ", "d1"), RssEntry("t2", " u3 ", "")>>,
    <<RssEntry("t1", "u1", "d1"), RssEntry("t2", "u2", "d2"), RssEntry("t3", "u3", "")>> }

RssResponses ==
  { RssResp("exception", 0, TRUE, FALSE, <<>>),
    RssResp("response", 500, FALSE, FALSE, <<>>),
    RssResp("response", 429, TRUE, FALSE, <<>>),
    RssResp("response", 200, TRUE, FALSE, <<>>),
    RssResp("response", 200, FALSE, FALSE, <<>>) }
    \cup { RssResp("response", 200, FALSE, TRUE, es) : es \in RssEntries }

ProvItems ==
  { <<>>,
    <<ProvItem(TRUE, "t1", "u1", "x1")>>,
    <<ProvItem(TRUE, "t1", "u1", "x1"), ProvItem(TRUE, "t2", "", "x2")>>,
    <<ProvItem(TRUE, "t1", "u1", "x1"), ProvItem(FALSE, "", "", "")>>,
    <<ProvItem(TRUE, "t1", "u1", "x1"), ProvItem(TRUE, "t2", "u2", ""),
      ProvItem(TRUE, "t3", "u3", "x3")>> }

ProvResponses ==
  { ProvResp("exception", 0, FALSE, "other", <<>>),
    ProvResp("response", 500, FALSE, "other", <<>>),
    ProvResp("response", 429, TRUE, "dict", <<>>),
    ProvResp("response", 200, FALSE, "other", <<>>),
    ProvResp("response", 200, TRUE, "other", <<>>) }
    \cup { ProvResp("response", 200, TRUE, "dict", its) : its \in ProvItems }

\* The two news feeds as the session finds them: both unreachable, or Google
\* News down and Bing News with items. Only app.py has the feed adapters.
FeedAnswers ==
  { <<NoRss, NoRss>>,
    <<RssResp("response", 500, FALSE, FALSE, <<>>),
      RssResp("response", 200, FALSE, TRUE,
              <<RssEntry("t1", " ", "d1"), RssEntry("t2", " u3 ", "")>>)>> }

Call(f, a) ==
  [fn |-> f, arg |-> a]

FnCalls ==
  { Call("collect", [NoArg EXCEPT !.results = rs]) : rs \in ResultLists }
    \cup { Call(f, [NoArg EXCEPT !.data = d]) :
             f \in {"normalize_app", "normalize_pub"}, d \in NormPayloads }
    \cup { Call("sdk_app", [NoArg EXCEPT !.flag = b, !.sdk = r]) :
             b \in BOOLEAN, r \in SdkResponses }
    \cup { Call("http_once", [NoArg EXCEPT !.http = r]) : r \in HttpResponses }
    \cup { Call("http_pub", [NoArg EXCEPT !.http = r, !.m = m]) :
             r \in HttpResponses, m \in 1..MaxResults }
    \cup { Call("sdk_pub", [NoArg EXCEPT !.sdk = r, !.m = m]) :
             r \in SdkResponses, m \in 1..MaxResults }
    \cup { Call(f, [NoArg EXCEPT !.rss = r, !.m = m]) :
             f \in {"google_rss", "bing_rss"}, r \in RssResponses, m \in 1..MaxResults }
    \cup { Call("serper", [NoArg EXCEPT !.flag = b, !.p1 = r1, !.p2 = r2, !.m = m]) :
             b \in BOOLEAN, r1 \in ProvResponses, r2 \in ProvResponses,
             m \in 1..MaxResults }
    \cup { Call(f, [NoArg EXCEPT !.flag = b, !.p1 = r, !.m = m]) :
             f \in {"brave", "bing"}, b \in BOOLEAN, r \in ProvResponses,
             m \in 1..MaxResults }
    \cup { Call("analyze", [NoArg EXCEPT !.results = rs, !.chat = r]) :
             rs \in SeqsUpTo(ResultRecords, 1), r \in ChatResponses }

Queries ==
  {"q1", "q2"}

Keys ==
  Queries \X (1..MaxResults)

Config(sdk, fixed, base) ==
  [has_sdk |-> sdk, fixed |-> fixed, base_env |-> base]

\* OLLAMA_WEB_SEARCH_URL and OLLAMA_WEB_BASE_URL / OLLAMA_HOST: both unset;
\* a URL and a host of their own; the URL equal to a built-in base + path;
\* the host equal to a built-in host (written with a trailing slash).
Overrides ==
  { <<"", EnvBase("", 0)>>,
    <<"https://search.example/find", EnvBase("https://host.example", 0)>>,
    <<"https://api.ollama.com/web/search", EnvBase("", 0)>>,
    <<"", EnvBase("http://localhost:11434", 1)>> }

AppConfigs ==
  { Config(sdk, o[1], o[2]) : sdk \in BOOLEAN, o \in Overrides }

\* publish4zenn.py: fixed_search_url is the variable or the official endpoint
PubConfigs ==
  { Config(TRUE, f, EnvBase("", 0)) :
      f \in {DefaultSearchUrl, "https://search.example/find"} }

NoEntry ==
  [present |-> FALSE, val |-> <<>>, age |-> 0]

Entry(v) ==
  [present |-> TRUE, val |-> v, age |-> 0]

\* st.session_state.article: the text, and the sources it was composed from
NoArticle ==
  [text |-> "", src |-> <<>>]

Article(a) ==
  [text |-> a.text, src |-> a.src]

\* app.py's direct-HTTP tier issues hundreds of requests in a pass: its
\* sessions are followed for one press, publish4zenn.py's for MaxClicks.
ClickBudget(prog) ==
  IF prog = "pub" THEN MaxClicks ELSE 1

\* The session before the first press.
SessionStart ==
  /\ pc = "idle"
  /\ query = "q1"
  /\ max_results = 1
  /\ pos = 0
  /\ tierLog = <<>>
  /\ quotaSeen = FALSE
  /\ afterQuota = FALSE
  /\ sdkAfterQuota = FALSE
  /\ repeated = FALSE
  /\ netCalled = FALSE
  /\ res = <<>>
  /\ cacheHit = FALSE
  /\ cache = [k \in Keys |-> NoEntry]
  /\ sources = <<>>
  /\ article = NoArticle
  /\ notice = ""
  /\ composerCalls = 0

Init ==
  /\ program \in {"app", "pub"}
  /\ cfg \in (IF program = "app" THEN AppConfigs ELSE PubConfigs)
  /\ urls = (IF program = "app" THEN UrlList(cfg) ELSE <<cfg.fixed>>)
  /\ feed \in (IF program = "app" THEN FeedAnswers ELSE {<<NoRss, NoRss>>})
  /\ clicksLeft = ClickBudget(program)
  /\ SessionStart
  /\ fn = ""
  /\ arg = NoArg
  /\ out = Pending

\* ------------------------------------------------------------ st.cache_data

\* a cache that never expires its entries
CacheFreshForever(c, k) ==
  c[k].present

\* an entry younger than ttl is served
CacheFresh(c, k) ==
  c[k].present /\ c[k].age < TTL

\* a cache that keeps no empty list
CacheStoreNonEmpty(c, k, v) ==
  IF v = <<>> THEN c ELSE [c EXCEPT ![k] = Entry(v)]

\* the value the call returned is kept under its arguments
CacheStore(c, k, v) ==
  [c EXCEPT ![k] = Entry(v)]

\* ages are kept up to TTL: an older entry is expired all the same
CacheAge(c, d) ==
  [k \in DOMAIN c |->
     IF c[k].present
     THEN [c[k] EXCEPT !.age = IF c[k].age + d < TTL THEN c[k].age + d ELSE TTL]
     ELSE c[k]]

\* ------------------------------------------------------------------ actions

FirstTier(prog) ==
  IF prog = "app" THEN "sdk" ELSE "http"

\* A line of tierLog: the tier, the list it returned (<<>> for None) and the
\* normalized sequence of the backend answer it was cut from.
TierEntry(t, r, seq) ==
  [tier |-> t, items |-> IF Truthy(r) THEN r.items ELSE <<>>, seq |-> seq]

\* The normalized sequence of a publish4zenn.py backend answer, before [:max_results]
HttpSeqPub(r) ==
  IF r.kind = "response" /\ r.status = 200 /\ r.decodable
  THEN NormalizeSearchPub(r.payload) ELSE <<>>

SdkSeqPub(r) ==
  IF r.kind = "json" THEN NormalizeSearchPub(r.payload) ELSE <<>>

\* The run button: the handler clears the session and calls
\* web_search_and_fetch, which st.cache_data serves when it can.
Click(q, m) ==
  /\ pc = "idle"
  /\ clicksLeft > 0
  /\ clicksLeft' = clicksLeft - 1
  /\ query' = q
  /\ max_results' = m
  /\ article' = NoArticle
  /\ notice' = ""
  /\ composerCalls' = 0
  /\ tierLog' = <<>>
  /\ quotaSeen' = FALSE
  /\ afterQuota' = FALSE
  /\ sdkAfterQuota' = FALSE
  /\ repeated' = FALSE
  /\ netCalled' = FALSE
  /\ res' = <<>>
  /\ pos' = 0
  /\ IF CacheFresh(cache, <<q, m>>)
     THEN /\ cacheHit' = TRUE
          /\ sources' = cache[<<q, m>>].val
          /\ pc' = "handle"
     ELSE /\ cacheHit' = FALSE
          /\ sources' = <<>>
          /\ pc' = FirstTier(program)
  /\ UNCHANGED << fn, arg, out, program, cfg, urls, feed, cache >>

\* Time passes between two presses.
Tick ==
  /\ pc = "idle"
  /\ clicksLeft > 0
  /\ \E k \in Keys : cache[k].present /\ cache[k].age < TTL
  /\ cache' = CacheAge(cache, TickStep)
  /\ UNCHANGED << fn, arg, out, program, cfg, urls, feed, clicksLeft, pc, query, max_results, pos, tierLog,
                  quotaSeen, afterQuota, sdkAfterQuota, repeated, netCalled, res,
                  cacheHit, sources, article, notice, composerCalls >>

\* app.py search(): 1) Ollama SDK
SdkApp ==
  /\ pc = "sdk"
  /\ program = "app"
  /\ \E r \in SdkResponses :
       LET ret == TryOllamaSdkApp(cfg.has_sdk, r)
       IN /\ tierLog' = Append(tierLog, TierEntry("sdk", ret, ret.items))
          /\ netCalled' = (netCalled \/ cfg.has_sdk)
          /\ IF ret.raised
             THEN /\ pc' = "crashed"
                  /\ UNCHANGED << res, pos >>
             ELSE IF Truthy(ret)
             THEN /\ res' = Take(ret.items, max_results)
                  /\ pc' = "collect"
                  /\ pos' = 0
             ELSE /\ pc' = "http"
                  /\ pos' = 1
                  /\ UNCHANGED res
  /\ UNCHANGED << fn, arg, out, program, cfg, urls, feed, clicksLeft, query, max_results, quotaSeen,
                  afterQuota, sdkAfterQuota, repeated, cacheHit, cache, sources,
                  article, notice, composerCalls >>

\* app.py search(): 2) Ollama HTTP, one request of _http_search_once. The
\* request is number ShapeIndex(pos) of the URL urls[UrlIndex(pos)]; every URL
\* before it in the list got all its NumShapes requests, so this (URL, method,
\* shape) was issued before exactly when the same URL stands earlier in the list.
HttpApp ==
  /\ pc = "http"
  /\ program = "app"
  /\ \E r \in HttpResponses :
       LET ret == HttpSearchAttempt(r)
           u == UrlIndex(pos)
           last == pos = Len(urls) * NumShapes
       IN /\ netCalled' = TRUE
          /\ afterQuota' = (afterQuota \/ quotaSeen)
          /\ quotaSeen' = (quotaSeen \/ (r.kind = "response" /\ r.status \in QuotaStatuses))
          /\ repeated' = (repeated \/ \E v \in 1..(u - 1) : urls[v] = urls[u])
          /\ IF ret.raised
             THEN /\ pc' = "crashed"
                  /\ UNCHANGED << res, pos, tierLog >>
             ELSE IF Truthy(ret)
             THEN /\ tierLog' = Append(tierLog, TierEntry("http", ret, ret.items))
                  /\ res' = Take(ret.items, max_results)
                  /\ pc' = "collect"
                  /\ pos' = 0
             ELSE IF last
             THEN /\ tierLog' = Append(tierLog, TierEntry("http", None, <<>>))
                  /\ res' = <<>>
                  /\ pc' = "collect"
                  /\ pos' = 0
             ELSE /\ pos' = pos + 1
                  /\ UNCHANGED << res, pc, tierLog >>
  /\ UNCHANGED << fn, arg, out, program, cfg, urls, feed, clicksLeft, query, max_results, sdkAfterQuota,
                  cacheHit, cache, sources, article, notice, composerCalls >>

\* publish4zenn.py search(): the REST endpoint first
HttpPub ==
  /\ pc = "http"
  /\ program = "pub"
  /\ \E r \in HttpResponses :
       LET ret == TryOllamaHttpPub(r, max_results)
       IN /\ tierLog' = Append(tierLog, TierEntry("http", ret, HttpSeqPub(r)))
          /\ netCalled' = TRUE
          /\ quotaSeen' = (r.kind = "response" /\ r.status \in QuotaStatuses)
          /\ IF ret.raised
             THEN /\ pc' = "crashed"
                  /\ UNCHANGED res
             ELSE IF Truthy(ret)
             THEN /\ res' = ret.items
                  /\ pc' = "collect"
             ELSE /\ pc' = "sdk"
                  /\ UNCHANGED res
  /\ UNCHANGED << fn, arg, out, program, cfg, urls, feed, clicksLeft, query, max_results, pos, afterQuota,
                  sdkAfterQuota, repeated, cacheHit, cache, sources, article,
                  notice, composerCalls >>

\* publish4zenn.py search(): then the SDK
SdkPub ==
  /\ pc = "sdk"
  /\ program = "pub"
  /\ \E r \in SdkResponses :
       LET ret == TryOllamaSdkPub(r, max_results)
       IN /\ tierLog' = Append(tierLog, TierEntry("sdk", ret, SdkSeqPub(r)))
          /\ netCalled' = TRUE
          /\ sdkAfterQuota' = quotaSeen
          /\ IF ret.raised
             THEN /\ pc' = "crashed"
                  /\ UNCHANGED res
             ELSE IF Truthy(ret)
             THEN /\ res' = ret.items
                  /\ pc' = "collect"
             ELSE /\ res' = <<>>
                  /\ pc' = "collect"
  /\ UNCHANGED << fn, arg, out, program, cfg, urls, feed, clicksLeft, query, max_results, pos, quotaSeen,
                  afterQuota, repeated, cacheHit, cache, sources, article, notice,
                  composerCalls >>

\* web_search_and_fetch after search(): dedup, return; st.cache_data keeps the
\* value and the handler stores it in the session.
CollectStep ==
  /\ pc = "collect"
  /\ sources' = Collect(res)
  /\ cache' = CacheStore(cache, <<query, max_results>>, Collect(res))
  /\ pc' = "handle"
  /\ UNCHANGED << fn, arg, out, program, cfg, urls, feed, clicksLeft, query, max_results, pos, tierLog,
                  quotaSeen, afterQuota, sdkAfterQuota, repeated, netCalled, res,
                  cacheHit, article, notice, composerCalls >>

\* a handler that calls the composer whatever the search found
HandleAlwaysComposes ==
  /\ pc = "handle"
  /\ \E r \in StepChatResponses :
       LET a == analyze_ai_news_narrative(sources, r)
       IN /\ composerCalls' = composerCalls + 1
          /\ notice' = "success"
          /\ article' = Article(a)
          /\ pc' = "idle"
  /\ UNCHANGED << fn, arg, out, program, cfg, urls, feed, clicksLeft, query, max_results, pos, tierLog,
                  quotaSeen, afterQuota, sdkAfterQuota, repeated, netCalled, res,
                  cacheHit, cache, sources >>

\* The handler after the search: compose when there are sources, warn when
\* there are none.
Handle ==
  /\ pc = "handle"
  /\ IF sources # <<>>
     THEN \E r \in StepChatResponses :
            LET a == analyze_ai_news_narrative(sources, r)
            IN /\ composerCalls' = composerCalls + 1
               /\ notice' = "success"
               /\ IF a.raised
                  THEN /\ pc' = "crashed"
                       /\ UNCHANGED article
                  ELSE /\ article' = (IF a.text # "" THEN Article(a) ELSE article)
                       /\ pc' = "idle"
     ELSE /\ notice' = "warning"
          /\ pc' = "idle"
          /\ UNCHANGED << article, composerCalls >>
  /\ UNCHANGED << fn, arg, out, program, cfg, urls, feed, clicksLeft, query, max_results, pos, tierLog,
                  quotaSeen, afterQuota, sdkAfterQuota, repeated, netCalled, res,
                  cacheHit, cache, sources >>

Next ==
  \/ \E q \in Queries, m \in 1..MaxResults : Click(q, m)
  \/ Tick
  \/ SdkApp
  \/ HttpApp
  \/ HttpPub
  \/ SdkPub
  \/ CollectStep
  \/ Handle

Spec ==
  Init /\ [][Next]_vars

\* ------------------------------------------------ one call of one function

session ==
  << program, cfg, urls, feed, clicksLeft, pc, query, max_results, pos, tierLog,
     quotaSeen, afterQuota, sdkAfterQuota, repeated, netCalled, res, cacheHit,
     cache, sources, article, notice, composerCalls >>

InitFn ==
  /\ program = "app"
  /\ cfg = Config(FALSE, "", EnvBase("", 0))
  /\ urls = <<>>
  /\ feed = <<NoRss, NoRss>>
  /\ clicksLeft = 0
  /\ SessionStart
  /\ \E c \in FnCalls : fn = c.fn /\ arg = c.arg
  /\ out = Pending

\* The call of fn returns r.
Returns(f, r) ==
  /\ fn = f
  /\ ~out.done
  /\ out' = Done(r)
  /\ UNCHANGED << fn, arg, session >>

CallCollect ==
  Returns("collect", List(Collect(arg.results)))

CallNormalizeApp ==
  Returns("normalize_app", List(NormalizeSearchApp(arg.data)))

CallNormalizePub ==
  Returns("normalize_pub", List(NormalizeSearchPub(arg.data)))

CallSdkApp ==
  Returns("sdk_app", TryOllamaSdkApp(arg.flag, arg.sdk))

CallHttpOnce ==
  Returns("http_once", HttpSearchAttempt(arg.http))

CallHttpPub ==
  Returns("http_pub", TryOllamaHttpPub(arg.http, arg.m))

CallSdkPub ==
  Returns("sdk_pub", TryOllamaSdkPub(arg.sdk, arg.m))

CallGoogleRss ==
  Returns("google_rss", TryGoogleNewsRss(arg.rss, arg.m))

CallBingRss ==
  Returns("bing_rss", TryBingNewsRss(arg.rss, arg.m))

CallSerper ==
  Returns("serper", TrySerper(arg.flag, arg.p1, arg.p2, arg.m))

CallBrave ==
  Returns("brave", TryBrave(arg.flag, arg.p1, arg.m))

CallBing ==
  Returns("bing", TryBing(arg.flag, arg.p1, arg.m))

CallAnalyze ==
  /\ fn = "analyze"
  /\ ~out.done
  /\ LET a == analyze_ai_news_narrative(arg.results, arg.chat)
     IN out' = [done |-> TRUE, raised |-> a.raised, isNone |-> FALSE,
                items |-> a.src, text |-> a.text]
  /\ UNCHANGED << fn, arg, session >>

NextFn ==
  \/ CallCollect
  \/ CallNormalizeApp
  \/ CallNormalizePub
  \/ CallSdkApp
  \/ CallHttpOnce
  \/ CallHttpPub
  \/ CallSdkPub
  \/ CallGoogleRss
  \/ CallBingRss
  \/ CallSerper
  \/ CallBrave
  \/ CallBing
  \/ CallAnalyze

SpecFn ==
  InitFn /\ [][NextFn]_vars

\* ------------------------------------------------------------------ claims

NoDuplicateUrls(s) ==
  \A i, j \in 1..Len(s) : i # j => s[i].url # s[j].url

\* C1: the list web_search_and_fetch returns (stored in the session and kept
\* by the cache) never holds two records with the same url.
C1_NoTwoRecordsShareUrl ==
  /\ NoDuplicateUrls(sources)
  /\ \A k \in Keys : cache[k].present => NoDuplicateUrls(cache[k].val)

\* search() handed the collector a list with a repeated url, and the function
\* returned a non-empty list.
C1_Witness ==
  /\ pc = "handle"
  /\ ~cacheHit
  /\ ~NoDuplicateUrls(res)
  /\ sources # <<>>

\* C2: the list web_search_and_fetch returns is never longer than max_results.
C2_LengthAtMostMaxResults ==
  /\ Len(sources) <= max_results
  /\ \A k \in Keys : cache[k].present => Len(cache[k].val) <= k[2]

\* The backend answered with more records than requested and the function
\* returned max_results of them.
C2_Witness ==
  /\ pc = "handle"
  /\ ~cacheHit
  /\ tierLog # <<>>
  /\ Len(tierLog[Len(tierLog)].seq) > max_results
  /\ Len(sources) = max_results

\* The tiers of search() in the order of their priority.
TierOrder(prog) ==
  IF prog = "app" THEN <<"sdk", "http">> ELSE <<"http", "sdk">>

\* C3: tiers are tried in priority order, each only after every earlier one
\* returned NoResult, and once a tier returns a non-empty list search()
\* returns exactly that list (nothing merged, nothing removed) and tries no
\* later tier.
C3_FirstSuccessReturnedUnmodified ==
  pc = "collect" =>
    /\ Len(tierLog) <= Len(TierOrder(program))
    /\ \A i \in 1..Len(tierLog) : tierLog[i].tier = TierOrder(program)[i]
    /\ \A i \in 1..(Len(tierLog) - 1) : tierLog[i].items = <<>>
    /\ tierLog # <<>>
    /\ res = tierLog[Len(tierLog)].items

\* C4: after the direct-HTTP tier has received 401, 402, 403 or 429 it issues
\* no further request in this pass, and a tier that follows it is still tried.
C4_QuotaStatusEndsHttpTier ==
  /\ ~afterQuota
  /\ (pc = "collect" /\ quotaSeen /\ TierOrder(program)[1] = "http"
        /\ tierLog[1].items = <<>>)
       => Len(tierLog) = 2

\* C5: when the backend sequence search() resolved holds at least max_results
\* distinct urls, web_search_and_fetch returns exactly max_results records.
C5_TruncatesAfterDeduplication ==
  (/\ pc = "handle"
   /\ ~cacheHit
   /\ tierLog # <<>>
   /\ Cardinality({ tierLog[Len(tierLog)].seq[i].url :
                      i \in 1..Len(tierLog[Len(tierLog)].seq) }) >= max_results)
    => Len(sources) = max_results

\* C6: the collector returns the first occurrence of each url, whole (title
\* and content of the record seen first), in the order of the list it was given.
C6_FirstOccurrencesInInputOrder ==
  (fn = "collect" /\ out.done) =>
    LET r == arg.results
        first == { i \in 1..Len(r) : \A j \in 1..(i - 1) : r[j].url # r[i].url }
    IN /\ Len(out.items) = Cardinality(first)
       /\ \A k \in 1..Len(out.items) :
            \E i \in first : /\ Cardinality({ j \in first : j < i }) = k - 1
                             /\ out.items[k] = r[i]

\* Two records with one url and different titles, then another url: the
\* collector kept the first of the two and the third.
C6_Witness ==
  /\ fn = "collect"
  /\ out.done
  /\ Len(arg.results) = 3
  /\ arg.results[1].url = arg.results[2].url
  /\ arg.results[1].title # arg.results[2].title
  /\ arg.results[3].url # arg.results[1].url
  /\ out.items = <<arg.results[1], arg.results[3]>>

\* Every tier of this pass was called and returned NoResult.
AllTiersNoResult ==
  /\ Len(tierLog) = Len(TierOrder(program))
  /\ \A i \in 1..Len(tierLog) : tierLog[i].items = <<>>

\* C7: when every tier returns NoResult (whatever the failure), no exception
\* leaves search(), it returns [], and the handler warns that no sources were
\* found without calling the composer.
C7_ExhaustionIsEmptyNotAnError ==
  /\ pc # "crashed"
  /\ (AllTiersNoResult /\ pc = "collect") => res = <<>>
  /\ (AllTiersNoResult /\ pc = "handle") => sources = <<>>
  /\ (AllTiersNoResult /\ pc = "idle") =>
       /\ notice = "warning"
       /\ composerCalls = 0
       /\ article = NoArticle
       /\ sources = <<>>

\* A pass that contacted the backends, got nothing from any tier and ended
\* with the warning.
C7_Witness ==
  /\ pc = "idle"
  /\ AllTiersNoResult
  /\ netCalled
  /\ notice = "warning"

Adapters ==
  { "sdk_app", "http_once", "http_pub", "sdk_pub", "google_rss", "bing_rss",
    "serper", "brave", "bing" }

\* The answer to the adapter's (first) request is a transport failure, a
\* status other than 200 or a body that does not decode.
AnswerFailed ==
  IF fn \in {"http_once", "http_pub"}
  THEN arg.http.kind # "response" \/ arg.http.status # 200 \/ ~arg.http.decodable
  ELSE IF fn \in {"sdk_app", "sdk_pub"} THEN arg.sdk.kind = "exception"
  ELSE IF fn \in {"google_rss", "bing_rss"}
  THEN arg.rss.kind # "response" \/ arg.rss.status # 200 \/ ~arg.rss.xml_ok
  ELSE arg.p1.kind # "response" \/ arg.p1.status # 200 \/ ~arg.p1.decodable

\* C8: no adapter call ends with an exception, and a request that failed
\* (transport, status, decoding) yields NoResult: None or an empty list.
C8_AdaptersNeverRaise ==
  (fn \in Adapters /\ out.done) =>
    /\ ~out.raised
    /\ AnswerFailed => (out.isNone \/ out.items = <<>>)

\* Serper answered /search with one record and the /news request timed out.
C8_Witness ==
  /\ fn = "serper"
  /\ out.done
  /\ arg.flag
  /\ arg.m = 2
  /\ arg.p1.kind = "response" /\ arg.p1.status = 200 /\ Len(arg.p1.items) = 1
  /\ arg.p2.kind = "exception"
  /\ out.isNone
  /\ ~out.raised

\* C9: a press whose (query, max_results) was resolved less than TTL seconds
\* ago is served the list that call returned and contacts no backend; any
\* other press starts a resolution pass.
C9_MemoizedWithinWindow ==
  [][ /\ (pc = "idle" /\ pc' # "idle") =>
           LET k == <<query', max_results'>>
           IN IF cache[k].present /\ cache[k].age < TTL
              THEN pc' = "handle" /\ cacheHit' /\ sources' = cache[k].val
              ELSE pc' = FirstTier(program) /\ ~cacheHit'
      /\ cacheHit' => ~netCalled'
      /\ pc = "collect" => cache'[<<query, max_results>>] = Entry(sources')
    ]_vars

\* A press served from the cache, some time after the call that filled it.
C9_Witness ==
  /\ pc = "handle"
  /\ cacheHit
  /\ sources # <<>>
  /\ cache[<<query, max_results>>].age > 0
  /\ ~netCalled

\* The candidates the normalizer chose from the payload.
Candidates ==
  IF fn = "normalize_app" THEN SelectItemsApp(arg.data) ELSE SelectItemsPub(arg.data)

\* C10: every record of the normalizer's output has a url, and the output
\* holds one record per candidate dict with a non-empty url or link: a
\* candidate without both is absent.
C10_OutputRecordsHaveUrl ==
  (fn \in {"normalize_app", "normalize_pub"} /\ out.done) =>
    /\ \A i \in 1..Len(out.items) : out.items[i].url # ""
    /\ Len(out.items) =
         Cardinality({ i \in 1..Len(Candidates) :
                         /\ Candidates[i].isdict
                         /\ (Candidates[i].url # "" \/ Candidates[i].link # "") })

\* A keyed payload with a candidate without url and link and one with a url.
C10_Witness ==
  /\ fn = "normalize_pub"
  /\ out.done
  /\ arg.data.kind = "dict"
  /\ \E i \in 1..Len(Candidates) :
       Candidates[i].isdict /\ Candidates[i].url = "" /\ Candidates[i].link = ""
  /\ Len(out.items) = 1

\* The candidate sequence by the stated precedence: a bare list itself; of a
\* keyed payload the list under "results", else the list under "data", else
\* the first list-valued field.
PrecedenceCandidates(data) ==
  IF data.kind = "list" THEN data.fields[1].items
  ELSE IF data.kind # "dict" THEN <<>>
  ELSE LET fs == data.fields
           lists == { i \in 1..Len(fs) : fs[i].islist }
           named(k) == { i \in lists : fs[i].key = k }
       IN IF named("results") # {} THEN fs[CHOOSE i \in named("results") : TRUE].items
          ELSE IF named("data") # {} THEN fs[CHOOSE i \in named("data") : TRUE].items
          ELSE IF lists # {} THEN fs[CHOOSE i \in lists : \A j \in lists : i <= j].items
          ELSE <<>>

\* C11: in both scripts the normalizer works on the sequence chosen by the
\* precedence results, then data, then the first list-valued field (a bare
\* list is used itself): a keyed payload with a list under data, another list
\* field before it and no results is normalized from data.
C11_ResultsThenDataThenFirstList ==
  (fn \in {"normalize_app", "normalize_pub"} /\ out.done) =>
    out.items = NormalizeItems(PrecedenceCandidates(arg.data))

\* The record the stated alias preference makes of a candidate dict.
AliasRecord(it) ==
  [url |-> IF it.url # "" THEN it.url ELSE it.link,
   title |-> IF it.title # "" THEN it.title ELSE it.name,
   content |-> IF it.content # "" THEN it.content
               ELSE IF it.snippet # "" THEN it.snippet ELSE it.text]

\* C12: the output of the normalizer is, in input order, one record per kept
\* candidate (a dict with a url or a link), with url = url else link, title =
\* title else name else "", content = content else snippet else text else "".
C12_AliasPreferenceInInputOrder ==
  (fn \in {"normalize_app", "normalize_pub"} /\ out.done) =>
    LET kept == { i \in 1..Len(Candidates) :
                    /\ Candidates[i].isdict
                    /\ (Candidates[i].url # "" \/ Candidates[i].link # "") }
    IN /\ Len(out.items) = Cardinality(kept)
       /\ \A k \in 1..Len(out.items) :
            \E i \in kept : /\ Cardinality({ j \in kept : j < i }) = k - 1
                            /\ out.items[k] = AliasRecord(Candidates[i])

\* A bare list of a record with link, snippet and text only and a record with
\* every alias set: the first falls through to link and snippet, the second
\* keeps url, title and content.
C12_Witness ==
  /\ fn = "normalize_app"
  /\ out.done
  /\ arg.data = ListPayload(<<ItemSnippet, ItemAll>>)
  /\ out.items = <<Rec("u2", "", "s2"), Rec("u1", "t1", "c1")>>

\* C13: within one pass the direct-HTTP tier issues no (URL, method,
\* parameter shape) request twice, whatever the fixed URL and the base host
\* are set to.
C13_EachRequestAtMostOnce ==
  ~repeated

\* C14: analyze_ai_news_narrative never ends with an exception and never
\* returns an empty text: it returns the content of the model's message when
\* there is one, the placeholder when the content is empty or missing, and
\* the diagnostic message (with the text of the exception) when chat raises.
C14_ComposerAlwaysReturnsText ==
  (fn = "analyze" /\ out.done) =>
    LET r == arg.chat
        holds == r.kind \in {"dict", "object"} /\ r.message = r.kind
    IN /\ ~out.raised
       /\ out.text # ""
       /\ r.kind = "exception" => out.text = ErrorMsg(r.err)
       /\ (holds /\ r.content # "") => out.text = r.content
       /\ (holds /\ r.content = "") => out.text = NoResponseText
       /\ (r.kind # "exception" /\ r.message = "missing") => out.text = NoResponseText

\* chat raised an exception whose text is empty, and the function returned
\* the diagnostic message.
C14_Witness ==
  /\ fn = "analyze"
  /\ out.done
  /\ arg.chat.kind = "exception"
  /\ arg.chat.err = ""
  /\ arg.results # <<>>
  /\ ~out.raised
  /\ out.text = ErrorMsg("")

\* C15: in app.py, once the SDK tier and the direct-HTTP tier have both
\* returned NoResult, search() goes on to the keyless feeds (Google News RSS,
\* then Bing News RSS), so that a feed that answers with an item with a link
\* makes web_search_and_fetch return a non-empty list.
C15_FallsBackToNewsFeeds ==
  LET exhausted == /\ program = "app"
                   /\ ~cacheHit
                   /\ Len(tierLog) >= 2
                   /\ tierLog[1].items = <<>>
                   /\ tierLog[2].items = <<>>
      feedHasItem == \/ Truthy(TryGoogleNewsRss(feed[1], max_results))
                     \/ Truthy(TryBingNewsRss(feed[2], max_results))
  IN /\ (exhausted /\ pc = "collect") =>
          (Len(tierLog) >= 3 /\ tierLog[3].tier = "google_rss")
     /\ (exhausted /\ pc \in {"handle", "idle"} /\ feedHasItem) => sources # <<>>

\* C16: in publish4zenn.py, after the REST endpoint has answered 401, 402,
\* 403 or 429, ollama.web_search is not called in the same search.
C16_NoSdkCallAfterQuotaStatus ==
  program = "pub" =>
    /\ ~sdkAfterQuota
    /\ (quotaSeen /\ pc \in {"collect", "handle", "idle"} /\ ~cacheHit) =>
         \A i \in 1..Len(tierLog) : tierLog[i].tier # "sdk"

\* C17: at every point of a session an article is stored only together with
\* the non-empty sources it was composed from; while a press is searching
\* article and sources are empty; the composer is called at most once per
\* press and only with non-empty sources; a press that finds no sources ends
\* with the warning and no article.
C17_ArticleBelongsToStoredSources ==
  /\ article # NoArticle =>
       (sources # <<>> /\ article.src = sources /\ article.text # "")
  /\ composerCalls <= 1
  /\ composerCalls = 1 => sources # <<>>
  /\ pc \in {"sdk", "http", "collect"} =>
       (article = NoArticle /\ sources = <<>> /\ composerCalls = 0)
  /\ pc = "handle" => (article = NoArticle /\ composerCalls = 0)
  /\ (pc = "idle" /\ notice = "warning") =>
       (article = NoArticle /\ sources = <<>> /\ composerCalls = 0)
  /\ (pc = "idle" /\ notice = "success") =>
       (article # NoArticle /\ composerCalls = 1)

\* A press that found no sources, after an earlier press of the session found
\* some and had an article composed: no article is left.
C17_Witness ==
  /\ pc = "idle"
  /\ clicksLeft = 0
  /\ notice = "warning"
  /\ ~cacheHit
  /\ article = NoArticle
  /\ sources = <<>>
  /\ \E k \in Keys : cache[k].present /\ cache[k].val # <<>>

\* C18: a call of web_search_and_fetch that ends with the empty list is kept
\* by the cache like any other, and a press with the same (query,
\* max_results) less than TTL seconds later gets the empty list from the
\* cache, with no backend contacted before the handler has answered.
C18_EmptyOutcomeIsMemoized ==
  [][ /\ (pc = "collect" /\ Collect(res) = <<>>) =>
           cache'[<<query, max_results>>] = Entry(<<>>)
      /\ (/\ pc = "idle" /\ pc' # "idle"
          /\ cache[<<query', max_results'>>].present
          /\ cache[<<query', max_results'>>].val = <<>>
          /\ cache[<<query', max_results'>>].age < TTL) =>
           (pc' = "handle" /\ cacheHit' /\ sources' = <<>> /\ ~netCalled'
              /\ tierLog' = <<>>)
      /\ (pc = "handle" /\ cacheHit /\ sources = <<>>) =>
           (pc' = "idle" /\ ~netCalled' /\ notice' = "warning" /\ cache' = cache)
    ]_vars

\* A press answered from the cache with the empty list an earlier pass ended
\* with, some time after that pass.
C18_Witness ==
  /\ pc = "idle"
  /\ cacheHit
  /\ sources = <<>>
  /\ notice = "warning"
  /\ ~netCalled
  /\ cache[<<query, max_results>>].val = <<>>
  /\ cache[<<query, max_results>>].age > 0

====
